---- MODULE Spec2Model ----
(***************************************************************************)
(* Model of the chat page controller, src/frontend/pages/index.js (Home).  *)
(*                                                                         *)
(* State: the React state of Home (input, messages, isStreaming, error),   *)
(* the abortRef ref, and one entry per started run of the async            *)
(* sendMessage: the POST it issued, its AbortController and the await it   *)
(* is suspended at.  Every action is one uninterrupted run of JavaScript:  *)
(* an event handler, or the part of sendMessage between two awaits.        *)
(*                                                                         *)
(* A text is a sequence of tokens: one token per typed character, and one  *)
(* token for each fixed literal of the source.                             *)
(***************************************************************************)
EXTENDS Integers, Sequences, FiniteSets, TLC

\* ---------------------------------------------------------------- bounds
MaxCalls == 2        \* accepted submits explored
MaxLen == 2          \* longest draft typed into the textarea

\* ------------------------------------------------------------ vocabulary
Chars == {"a", " "}
Whitespace == {" "}

Drafts == UNION {[1..n -> Chars] : n \in 0..MaxLen}

StoppedText == <<"Response generation stopped.">>
ApologyText == <<"I apologize, but I'm unable to connect to the server at the moment. Please check your connection and try again.">>
ConnectError == "Unable to connect to server. Please try again."
Null == "null"
NoController == 0

\* bodies the /ask endpoint may answer with: {answer, sources: [{source, score}]}
Responses ==
  { [answer |-> <<"A">>, sources |-> <<>>],
    [answer |-> <<"B">>, sources |-> <<[source |-> "doc", score |-> 1]>>] }

\* HTTP statuses the endpoint may answer with
Statuses == {200, 404, 500}

\* names of the exceptions a non-aborted fetch / res.json() can reject with
FetchErrors == {"TypeError"}
JsonErrors == {"SyntaxError", "TypeError"}

VARIABLES input, messages, isStreaming, error, abortRef, calls, clock, last

vars == <<input, messages, isStreaming, error, abortRef, calls, clock, last>>

\* ------------------------------------------------------------- helpers
\* String.prototype.trim: drop leading and trailing whitespace
RECURSIVE TrimStart(_)
TrimStart(s) ==
  IF s # <<>> /\ Head(s) \in Whitespace THEN TrimStart(Tail(s)) ELSE s

RECURSIVE TrimEnd(_)
TrimEnd(s) ==
  IF s # <<>> /\ s[Len(s)] \in Whitespace
  THEN TrimEnd(SubSeq(s, 1, Len(s) - 1))
  ELSE s

Trim(s) == TrimEnd(TrimStart(s))

\* Response.ok
ResOk(status) == status >= 200 /\ status <= 299

\* object spread { ...m, f1: v1, ... }
Spread(m, upd) ==
  [f \in DOMAIN m \cup DOMAIN upd |-> IF f \in DOMAIN upd THEN upd[f] ELSE m[f]]

\* m.id === id (a user message has no id)
IdMatches(m, id) == "id" \in DOMAIN m /\ m.id = id

\* prev.map((m) => m.id === id ? { ...m, ...upd } : m)
MapById_All(prev, id, upd) ==
  [i \in 1..Len(prev) |-> IF "id" \in DOMAIN prev[i] THEN Spread(prev[i], upd) ELSE prev[i]]
MapById(prev, id, upd) ==
  [i \in 1..Len(prev) |-> IF IdMatches(prev[i], id) THEN Spread(prev[i], upd) ELSE prev[i]]

\* truthiness of optional message fields
MsgIsError(m) == "isError" \in DOMAIN m /\ m.isError
MsgIsStreaming(m) == "isStreaming" \in DOMAIN m /\ m.isStreaming

Awaiting(c) == c.pc \in {"fetch", "json"}
Finished(c) == ~Awaiting(c)

\* ---------------------------------------------------------------- Init
Init ==
  /\ input = <<>>
  /\ messages = <<>>
  /\ isStreaming = FALSE
  /\ error = Null
  /\ abortRef = NoController
  /\ calls = <<>>
  /\ clock = 0
  /\ last = [op |-> "mount", call |-> 0]

\* ------------------------------------------------------------- actions
\* The handlers are modelled with the guards of their own code; the model lets
\* each of them run in any state (the disabled / conditional rendering of the
\* controls that call them is not a guard of the handler).
\* `last` records the handler or continuation that ran last and the run of
\* sendMessage it belongs to (0: none).

\* textarea onChange
setInput(d) ==
  /\ input' = d
  /\ last' = [op |-> "setInput", call |-> 0]
  /\ UNCHANGED <<messages, isStreaming, error, abortRef, calls, clock>>

\* Date.now() at an accepted submit.  Accepted submits are separate UI events,
\* so the clock has advanced by at least a millisecond since the previous one.
DateNow == clock + 1

\* if (!input.trim() || isStreaming) return;
SubmitRejected_NoTrim == input = <<>> \/ isStreaming
SubmitRejected_NoFlag == Trim(input) = <<>>
SubmitRejected == Trim(input) = <<>> \/ isStreaming

\* const userMessage = { role: "user", text: input.trim() }
UserMessage_Untrimmed(draft) == [role |-> "user", text |-> draft]
UserMessage(draft) == [role |-> "user", text |-> Trim(draft)]

\* { role: "bot", id, text: "", isStreaming: true }
Placeholder(id) == [role |-> "bot", id |-> id, text |-> <<>>, isStreaming |-> TRUE]

\* setMessages((prev) => [...prev, userMessage, placeholder])
AppendPair_PlaceholderFirst(prev, userMessage, id) == prev \o <<Placeholder(id), userMessage>>
AppendPair(prev, userMessage, id) == prev \o <<userMessage, Placeholder(id)>>

\* sendMessage up to its first await (the fetch call)
sendMessage_KeepBanner ==
  \/ /\ SubmitRejected
     /\ last' = [op |-> "sendMessage", call |-> 0]
     /\ UNCHANGED <<input, messages, isStreaming, error, abortRef, calls, clock>>
  \/ /\ ~SubmitRejected
     /\ Len(calls) < MaxCalls
     /\ LET userMessage == UserMessage(input)
            id == DateNow
        IN /\ messages' = AppendPair(messages, userMessage, id)
           /\ input' = <<>>
           /\ isStreaming' = TRUE
           /\ error' = error
           /\ abortRef' = Len(calls) + 1
           /\ calls' = Append(calls, [id |-> id, question |-> userMessage.text,
                                      pc |-> "fetch", aborted |-> FALSE, data |-> <<>>])
           /\ clock' = id
           /\ last' = [op |-> "sendMessage", call |-> Len(calls) + 1]
sendMessage ==
  \/ /\ SubmitRejected
     /\ last' = [op |-> "sendMessage", call |-> 0]
     /\ UNCHANGED <<input, messages, isStreaming, error, abortRef, calls, clock>>
  \/ /\ ~SubmitRejected
     /\ Len(calls) < MaxCalls
     /\ LET userMessage == UserMessage(input)
            id == DateNow
        IN /\ messages' = AppendPair(messages, userMessage, id)
           /\ input' = <<>>
           /\ isStreaming' = TRUE
           /\ error' = Null
           /\ abortRef' = Len(calls) + 1
           /\ calls' = Append(calls, [id |-> id, question |-> userMessage.text,
                                      pc |-> "fetch", aborted |-> FALSE, data |-> <<>>])
           /\ clock' = id
           /\ last' = [op |-> "sendMessage", call |-> Len(calls) + 1]

\* finally block
Finally_KeepFlag ==
  /\ isStreaming' = isStreaming
  /\ abortRef' = NoController
Finally ==
  /\ isStreaming' = FALSE
  /\ abortRef' = NoController

\* catch (err) { ... } finally { ... }
Catch_AbortAsFailure(k, name) ==
  /\ error' = ConnectError
  /\ messages' = MapById(messages, calls[k].id,
                    [text |-> ApologyText, isStreaming |-> FALSE, isError |-> TRUE])
  /\ calls' = [calls EXCEPT ![k].pc = IF name = "AbortError" THEN "stopped" ELSE "failed"]
  /\ Finally
Catch_NoIsError(k, name) ==
  /\ IF name = "AbortError"
     THEN /\ messages' = MapById(messages, calls[k].id,
                            [text |-> StoppedText, isStreaming |-> FALSE])
          /\ error' = error
          /\ calls' = [calls EXCEPT ![k].pc = "stopped"]
     ELSE /\ error' = ConnectError
          /\ messages' = MapById(messages, calls[k].id,
                            [text |-> ApologyText, isStreaming |-> FALSE])
          /\ calls' = [calls EXCEPT ![k].pc = "failed"]
  /\ Finally
Catch(k, name) ==
  /\ IF name = "AbortError"
     THEN /\ messages' = MapById(messages, calls[k].id,
                            [text |-> StoppedText, isStreaming |-> FALSE])
          /\ error' = error
          /\ calls' = [calls EXCEPT ![k].pc = "stopped"]
     ELSE /\ error' = ConnectError
          /\ messages' = MapById(messages, calls[k].id,
                            [text |-> ApologyText, isStreaming |-> FALSE, isError |-> TRUE])
          /\ calls' = [calls EXCEPT ![k].pc = "failed"]
  /\ Finally

\* await fetch(...) resolves with a response; if (!res.ok) throw
fetchResolved(k, status) ==
  /\ calls[k].pc = "fetch"
  /\ ~calls[k].aborted
  /\ IF ResOk(status)
     THEN /\ calls' = [calls EXCEPT ![k].pc = "json"]
          /\ UNCHANGED <<messages, isStreaming, error, abortRef>>
     ELSE Catch(k, "Error")
  /\ last' = [op |-> "fetchResolved", call |-> k]
  /\ UNCHANGED <<input, clock>>

\* await fetch(...) rejects: network failure
fetchRejected(k, name) ==
  /\ calls[k].pc = "fetch"
  /\ ~calls[k].aborted
  /\ Catch(k, name)
  /\ last' = [op |-> "fetchRejected", call |-> k]
  /\ UNCHANGED <<input, clock>>

\* { ...m, text: data.answer, sources: data.sources, isStreaming: false }
AnswerUpdate_NoSources(data) == [text |-> data.answer, isStreaming |-> FALSE]
AnswerUpdate(data) ==
  [text |-> data.answer, sources |-> data.sources, isStreaming |-> FALSE]

\* await res.json() resolves; setMessages with the answer; finally
jsonResolved(k, data) ==
  /\ calls[k].pc = "json"
  /\ ~calls[k].aborted
  /\ messages' = MapById(messages, calls[k].id, AnswerUpdate(data))
  /\ calls' = [calls EXCEPT ![k].pc = "answered", ![k].data = <<data>>]
  /\ Finally
  /\ last' = [op |-> "jsonResolved", call |-> k]
  /\ UNCHANGED <<input, error, clock>>

\* await res.json() rejects: unparsable body or connection lost
jsonRejected(k, name) ==
  /\ calls[k].pc = "json"
  /\ ~calls[k].aborted
  /\ Catch(k, name)
  /\ last' = [op |-> "jsonRejected", call |-> k]
  /\ UNCHANGED <<input, clock>>

\* The pending await of an aborted request rejects with AbortError and the
\* catch and finally blocks run.  abort() only settles the promise; sendMessage
\* resumes in a later job, so other handlers may run between stopGeneration
\* and this step.
abortRejected(k) ==
  /\ Awaiting(calls[k])
  /\ calls[k].aborted
  /\ Catch(k, "AbortError")
  /\ last' = [op |-> "abortRejected", call |-> k]
  /\ UNCHANGED <<input, clock>>

\* Stop button onClick
stopGeneration ==
  /\ IF abortRef # NoController
     THEN /\ calls' = [calls EXCEPT ![abortRef].aborted = TRUE]
          /\ isStreaming' = FALSE
     ELSE UNCHANGED <<calls, isStreaming>>
  /\ last' = [op |-> "stopGeneration", call |-> abortRef]
  /\ UNCHANGED <<input, messages, error, abortRef, clock>>

\* error banner dismiss button onClick
dismissError ==
  /\ error' = Null
  /\ last' = [op |-> "dismissError", call |-> 0]
  /\ UNCHANGED <<input, messages, isStreaming, abortRef, calls, clock>>

Next ==
  \/ \E d \in Drafts : setInput(d)
  \/ sendMessage
  \/ stopGeneration
  \/ dismissError
  \/ \E k \in 1..Len(calls) : \E status \in Statuses : fetchResolved(k, status)
  \/ \E k \in 1..Len(calls) : \E name \in FetchErrors : fetchRejected(k, name)
  \/ \E k \in 1..Len(calls) : \E data \in Responses : jsonResolved(k, data)
  \/ \E k \in 1..Len(calls) : \E name \in JsonErrors : jsonRejected(k, name)
  \/ \E k \in 1..Len(calls) : abortRejected(k)

Spec == Init /\ [][Next]_vars

\* run k of sendMessage resumes from the await it is suspended at
Resume(k) ==
  /\ k \in 1..Len(calls)
  /\ \/ \E status \in Statuses : fetchResolved(k, status)
     \/ \E name \in FetchErrors : fetchRejected(k, name)
     \/ \E data \in Responses : jsonResolved(k, data)
     \/ \E name \in JsonErrors : jsonRejected(k, name)
     \/ abortRejected(k)

\* every issued request is eventually answered, fails or is aborted, and the
\* suspended run is then resumed by the event loop
FairSpec == Spec /\ \A k \in 1..MaxCalls : WF_vars(Resume(k))

\* ------------------------------------------------------------ properties
\* runs of sendMessage that issued their POST and have not reached the end of
\* their finally block
InFlight == {k \in 1..Len(calls) : Awaiting(calls[k])}

\* the bot message appended by the k-th accepted submit
Slot(k) == 2 * k

\* the step is the end of run k of sendMessage
Ends(k) == k \in 1..Len(calls) /\ Awaiting(calls[k]) /\ Finished(calls'[k])

FailureOps == {"fetchResolved", "fetchRejected", "jsonRejected"}

\* C1: at most one request is in flight: the number of issued POST requests
\* whose handler has not yet finished is 0 or 1 in every reachable state.
C1_AtMostOneInFlight == Cardinality(InFlight) <= 1

\* C2: a submit of a draft whose trimmed text is non-empty, while no request is
\* in flight, appends exactly the user message (trimmed draft) and then an
\* empty streaming bot placeholder, and leaves the earlier messages as they were.
C2_SubmitAppendsPair ==
  [][ (last'.op = "sendMessage" /\ Trim(input) # <<>> /\ InFlight = {})
      => /\ Len(messages') = Len(messages) + 2
         /\ SubSeq(messages', 1, Len(messages)) = messages
         /\ messages'[Len(messages) + 1] = [role |-> "user", text |-> Trim(input)]
         /\ messages'[Len(messages) + 2].role = "bot"
         /\ messages'[Len(messages) + 2].text = <<>>
         /\ messages'[Len(messages) + 2].isStreaming = TRUE ]_vars

C2_Witness ==
  /\ last.op = "sendMessage"
  /\ last.call = 2
  /\ InFlight = {2}
  /\ Len(messages) = 4
  /\ messages[3].text = <<"a">>

\* C3: a submit with an empty or whitespace-only draft changes neither the
\* messages, the draft, the in-flight flag, the error banner nor the abort
\* handle, and issues no request.
C3_EmptySubmitNoOp ==
  [][ (last'.op = "sendMessage" /\ Trim(input) = <<>>)
      => UNCHANGED <<messages, input, isStreaming, error, abortRef, calls>> ]_vars

C3_Witness ==
  /\ last.op = "sendMessage"
  /\ last.call = 0
  /\ ~isStreaming
  /\ input = <<" ", " ">>

\* C4: Stop pressed (the Stop button is rendered: isStreaming) reaches the
\* request in flight, whose response has not resolved, and clears the flag;
\* the aborted request then ends with its placeholder reading
\* "Response generation stopped.", isStreaming = false, and the flag cleared.
C4_StopMarksStopped ==
  [][ /\ (last'.op = "stopGeneration" /\ isStreaming)
         => /\ abortRef = Len(calls)
            /\ abortRef \in InFlight
            /\ calls'[abortRef].aborted
            /\ ~isStreaming'
      /\ \A k \in 1..Len(calls) :
           (Ends(k) /\ calls[k].aborted)
           => /\ messages'[Slot(k)].text = StoppedText
              /\ ~MsgIsStreaming(messages'[Slot(k)])
              /\ ~isStreaming' ]_vars

C4_Witness ==
  \E k \in 1..Len(calls) :
    /\ calls[k].aborted
    /\ Finished(calls[k])
    /\ last = [op |-> "abortRejected", call |-> k]
    /\ messages[Slot(k)].text = StoppedText
    /\ ~isStreaming

\* C5: a request that ends with a non-2xx status, a network failure or any
\* other non-abort exception gets the apology text with isError = true and
\* isStreaming = false in its placeholder; the banner is set to the
\* connectivity error text and the in-flight flag is cleared.
C5_FailureMarksError ==
  [][ \A k \in 1..Len(calls) :
        (Ends(k) /\ last'.op \in FailureOps)
        => /\ messages'[Slot(k)].text = ApologyText
           /\ MsgIsError(messages'[Slot(k)])
           /\ ~MsgIsStreaming(messages'[Slot(k)])
           /\ error' = ConnectError
           /\ ~isStreaming' ]_vars

C5_Witness ==
  \E k \in 1..Len(calls) :
    /\ calls[k].pc = "failed"
    /\ last = [op |-> "jsonRejected", call |-> k]
    /\ MsgIsError(messages[Slot(k)])
    /\ error = ConnectError

\* C6: a request that succeeds without having been cancelled gets the
\* response's answer and sources in its placeholder, with isStreaming = false
\* and no error mark; the step does not set the banner and clears the flag.
C6_SuccessFillsPlaceholder ==
  [][ \A k \in 1..Len(calls) :
        (Ends(k) /\ last'.op = "jsonResolved")
        => /\ Len(calls'[k].data) = 1
           /\ messages'[Slot(k)].text = calls'[k].data[1].answer
           /\ "sources" \in DOMAIN messages'[Slot(k)]
           /\ messages'[Slot(k)].sources = calls'[k].data[1].sources
           /\ ~MsgIsStreaming(messages'[Slot(k)])
           /\ ~MsgIsError(messages'[Slot(k)])
           /\ error' = error
           /\ ~isStreaming' ]_vars

C6_Witness ==
  \E k \in 1..Len(calls) :
    /\ calls[k].pc = "answered"
    /\ last = [op |-> "jsonResolved", call |-> k]
    /\ messages[Slot(k)].text = <<"B">>
    /\ Len(messages[Slot(k)].sources) = 1

\* C7: the end of a request by user abort neither sets the banner nor marks
\* the placeholder isError; the banner becomes set only in a step that ends a
\* request with a non-abort failure.
C7_AbortIsNotFailure ==
  [][ /\ \A k \in 1..Len(calls) :
           (Ends(k) /\ calls[k].aborted)
           => /\ error' = error
              /\ ~MsgIsError(messages'[Slot(k)])
      /\ (error' # error /\ error' # Null)
         => /\ last'.op \in FailureOps
            /\ Ends(last'.call)
            /\ ~calls[last'.call].aborted ]_vars

C7_Witness ==
  \E k \in 1..Len(calls) :
    /\ calls[k].pc = "stopped"
    /\ last = [op |-> "abortRejected", call |-> k]
    /\ error = Null
    /\ ~MsgIsError(messages[Slot(k)])

\* C8: a submit attempted while the in-flight flag is set appends no message,
\* issues no request and leaves draft, banner and abort handle unchanged; and
\* a request is only ever issued by a submit step that finds the flag clear,
\* for the draft of that moment (nothing is sent later on its behalf).
C8_SubmitWhileStreamingDropped ==
  [][ /\ (last'.op = "sendMessage" /\ isStreaming)
         => UNCHANGED <<messages, input, isStreaming, error, abortRef, calls>>
      /\ (calls' # calls /\ Len(calls') # Len(calls))
         => /\ last'.op = "sendMessage"
            /\ ~isStreaming
            /\ Len(calls') = Len(calls) + 1
            /\ calls'[Len(calls')].question = Trim(input) ]_vars

C8_Witness ==
  /\ last.op = "sendMessage"
  /\ last.call = 0
  /\ isStreaming
  /\ Trim(input) = <<"a">>

C10_PairsAndOnePostEach ==
  /\ Len(messages) % 2 = 0
  /\ \A i \in 1..Len(messages) :
       messages[i].role = (IF i % 2 = 1 THEN "user" ELSE "bot")
  /\ Len(calls) = Cardinality({i \in 1..Len(messages) : messages[i].role = "user"})

C10_Witness ==
  /\ Len(calls) = 2
  /\ Len(messages) = 4
  /\ calls[1].pc = "failed"
  /\ calls[2].pc = "stopped"

One(b) == IF b THEN 1 ELSE 0

\* the bot message of run k shows exactly the outcome the run ended with
Settled(k) ==
  LET m == messages[Slot(k)]
      answer == /\ calls[k].pc = "answered"
                /\ Len(calls[k].data) = 1
                /\ m.text = calls[k].data[1].answer
                /\ ~MsgIsError(m)
      stopped == /\ calls[k].pc = "stopped"
                 /\ m.text = StoppedText
                 /\ ~MsgIsError(m)
      failed == /\ calls[k].pc = "failed"
                /\ m.text = ApologyText
                /\ MsgIsError(m)
  IN /\ Finished(calls[k])
     /\ ~MsgIsStreaming(m)
     /\ One(answer) + One(stopped) + One(failed) = 1

\* C11: with every suspended run eventually resumed, every bot placeholder
\* eventually has isStreaming = false with exactly one of the outcomes answer,
\* stopped text, error text, and keeps it; the in-flight flag eventually
\* becomes false, and only an accepted submit sets it again.
C11_EveryRequestSettles ==
  /\ \A k \in 1..MaxCalls :
       (k <= Len(calls) /\ MsgIsStreaming(messages[Slot(k)]))
         ~> [](k <= Len(calls) /\ Settled(k))
  /\ isStreaming ~> ~isStreaming
  /\ [][ (~isStreaming /\ isStreaming')
         => (last'.op = "sendMessage" /\ last'.call = Len(calls) + 1
             /\ Len(calls') = Len(calls) + 1) ]_vars

C11_Witness ==
  /\ Len(calls) = 2
  /\ calls[1].pc = "answered"
  /\ calls[2].pc = "failed"
  /\ Settled(1)
  /\ Settled(2)
  /\ ~isStreaming

\* C12: the in-flight flag is true exactly when some bot message has
\* isStreaming = true.
C12_FlagIffStreamingPlaceholder ==
  isStreaming <=> (\E i \in 1..Len(messages) : MsgIsStreaming(messages[i]))

\* C13: the abort handle is non-null exactly when a request is outstanding,
\* and then it is the controller of an outstanding request; the end of an
\* earlier run never changes the handle or the flag while a later request is
\* outstanding.
C13_HandleBelongsToCurrentRequest ==
  [][ /\ (abortRef' # NoController) <=> (InFlight' # {})
      /\ abortRef' # NoController => abortRef' \in InFlight'
      /\ \A j \in 1..Len(calls) : \A k \in 1..Len(calls) :
           (j < k /\ Ends(j) /\ Awaiting(calls'[k]))
           => (abortRef' = abortRef /\ isStreaming' = isStreaming) ]_vars

\* the step is a submit that passed the guard of sendMessage
AcceptedSubmit == last'.op = "sendMessage" /\ Len(calls') = Len(calls) + 1

\* C14: right after an accepted submit the draft is empty and the banner is
\* null; a set banner is otherwise cleared only by its dismiss button, and the
\* dismiss button changes nothing but the banner.
C14_SubmitResetsDraftAndBanner ==
  [][ /\ AcceptedSubmit => (input' = <<>> /\ error' = Null)
      /\ (error # Null /\ error' = Null)
         => (AcceptedSubmit \/ last'.op = "dismissError")
      /\ last'.op = "dismissError"
         => (error' = Null /\ UNCHANGED <<messages, input, isStreaming, abortRef, calls>>) ]_vars

C14_Witness ==
  /\ last = [op |-> "sendMessage", call |-> 2]
  /\ calls[1].pc = "failed"
  /\ MsgIsError(messages[Slot(1)])
  /\ input = <<>>
  /\ error = Null

====
